---------------------------- MODULE Spec2Model ----------------------------
(***************************************************************************)
(* Wire protocol session layer of trezor-core:                             *)
(*   src/trezor/wire/__init__.py  (registry, Context, session_handler,     *)
(*                                 protobuf_workflow, keychain_workflow,   *)
(*                                 unexpected_msg)                         *)
(*   src/apps/management/change_pin.py  (change_pin workflow)              *)
(*                                                                         *)
(* One session_handler loop on one interface.  The host is the             *)
(* environment: every header read (reader.aopen) draws a frame from        *)
(* Frames.  Business handlers other than change_pin are external; the      *)
(* model lets them write, read, return or raise in any order.              *)
(***************************************************************************)
EXTENDS Integers, Sequences, FiniteSets, TLC

(* ---------------------------- bounds ---------------------------------- *)

\* largest declared payload length of a frame
MaxSize == 2
\* largest number of frames one workflow invocation writes before its reply
MaxWrites == 1
\* largest number of mismatching PIN rounds of one change_pin invocation
MaxRounds == 1

(* ---------------------------- values ---------------------------------- *)

\* message type tags that boot code may register
RegTags == {"ChangePin", "GetAddress"}
\* message type tags the host may send; no workflow is ever registered for
\* "ButtonAck", and a tag of RegTags is unknown until it is registered
Tags == RegTags \cup {"ButtonAck"}

\* Python's None for the session handler's `reader`
None == [type |-> "None", size |-> 0, len |-> 0, valid |-> TRUE]

\* a codec_v1.Reader right after aopen: header read, whole payload unread;
\* valid tells whether the payload decodes as the protobuf type of the tag
Frames == [type : Tags, size : 0..MaxSize, len : 0..MaxSize, valid : BOOLEAN]
OpenedReaders == {f \in Frames : f.size = f.len}

\* exceptions in flight
NoExc == [kind |-> "none", code |-> "", message |-> "", reader |-> None, origin |-> ""]
UnexpectedMessageError(r) ==
    [kind |-> "UnexpectedMessageError", code |-> "", message |-> "",
     reader |-> r, origin |-> "read"]
Error(code, message, origin) ==
    [kind |-> "Error", code |-> code, message |-> message,
     reader |-> None, origin |-> origin]
Exception(origin) ==
    [kind |-> "Exception", code |-> "", message |-> "",
     reader |-> None, origin |-> origin]

\* messages written to the interface
Msg(type, code, message) == [type |-> type, code |-> code, message |-> message]
Failure(code, message) == Msg("Failure", code, message)
ButtonRequest == Msg("ButtonRequest", "Other", "")
Success(message) == Msg("Success", "", message)
NoMsg == Msg("None", "", "")

\* domain failures an external business handler may raise
HandlerErrors == {<<"DataError", "Invalid data">>, <<"ProcessError", "Failed">>}
\* what an external business handler may return: None or a response message
HandlerResults == {NoMsg, Success("done")}
\* the sets of reply types an external business handler may wait for:
\* ctx.read((ButtonAck,)) and ctx.wait(...), which reads with types = ()
HandlerReadTypes == {{"ButtonAck"}, {}}

\* a decoded request; only msg.remove of ChangePin is read by the model
NoReq == [remove |-> FALSE]

\* the PINs a user may enter (strings of digits) and the empty string
EnteredPins == {<<1>>, <<2>>}
PinStrings == {<<>>} \cup EnteredPins

\* int(s) of a string of decimal digits
RECURSIVE int(_)
int(s) == IF s = <<>> THEN 0 ELSE 10 * int(SubSeq(s, 1, Len(s) - 1)) + s[Len(s)]

\* trezor.pin.pin_to_int(pin) = int("1" + pin)
pin_to_int(p) == int(<<1>> \o p)

PinCancelled ==
    [kind |-> "PinCancelled", code |-> "", message |-> "",
     reader |-> None, origin |-> "handler"]

(* ---------------------------- registry -------------------------------- *)

\* wire.add(mtype, pkgname, modname, namespace): the (handler, args) pair it
\* hands to register
add(pkgname, modname, namespace) ==
    IF namespace # "None"
    THEN [handler |-> "protobuf_workflow",
          args |-> <<"keychain_workflow", namespace, "import_workflow", pkgname, modname>>]
    ELSE [handler |-> "protobuf_workflow",
          args |-> <<"import_workflow", pkgname, modname>>]

\* the registrations boot code performs
Registrations ==
    { add("apps.management", "change_pin", "None"),
      add("apps.common", "handler", "None"),
      add("apps.common", "handler", "bip32") }

\* register()'s first argument: an int tag or a protobuf.MessageType subclass
MTypes ==
    [isclass : {FALSE}, value : RegTags]
        \cup [isclass : {TRUE}, value : [MESSAGE_WIRE_TYPE : RegTags]]

\* lines 41-42: a message class stands for its MESSAGE_WIRE_TYPE
WireType(mtype) ==
    IF mtype.isclass THEN mtype.value.MESSAGE_WIRE_TYPE ELSE mtype.value

\* session_handler lines 143-146: registry lookup with unexpected_msg default
Lookup(handlers, type) ==
    IF type \in DOMAIN handlers
    THEN handlers[type]
    ELSE [handler |-> "unexpected_msg", args |-> <<>>]

NoHandler == [handler |-> "None", args |-> <<>>]

\* protobuf_workflow's `handler` argument is args[1]
UsesKeychain(h) == Len(h.args) > 0 /\ h.args[1] = "keychain_workflow"
\* import_workflow: the module function named by the last bound argument
Business(h) == h.args[Len(h.args)]

(* ---------------------------- state ----------------------------------- *)

VARIABLES
    workflow_handlers,  \* the global registry dict
    registered,         \* the last register call: its tag, (handler, args), outcome
    pc,                 \* session_handler: "top" (line 137), "running" (line 152)
    reader,             \* session_handler's local `reader`
    handler,            \* session_handler's local (handler, args)
    wpc,                \* position inside the running workflow coroutine
    res,                \* the business handler's return value
    exc,                \* the exception in flight
    raisedAt,           \* Len(written) when exc was raised
    keychain,           \* "none", "held", "released"
    acquired,           \* keychains acquired by this invocation
    released,           \* keychain.__del__ calls of this invocation
    written,            \* frames written to the interface since dispatch
    workflows,          \* workflows started (onstart) and not closed (onclose)
    unimports,          \* open utils.unimport_begin brackets
    pin,                \* trezor.config: the stored PIN, as pin_to_int gives it
    req,                \* the decoded request: [remove |-> msg.remove]
    curpin,             \* change_pin's local curpin
    newpin,             \* change_pin's local newpin
    pin1,               \* request_pin_confirm's local pin1
    stage,              \* which call of request_pin_ack is running
    confirmed,          \* require_confirm calls that returned
    stores,             \* config.change_pin calls of this invocation
    mismatches,         \* pin_mismatch screens of this invocation
    unexpected          \* the reader Context.read rejected (line 87), until
                        \* session_handler dispatches on it

vars == <<workflow_handlers, registered, pc, reader, handler, wpc, res, exc,
          raisedAt, keychain, acquired, released, written, workflows, unimports,
          pin, req, curpin, newpin, pin1, stage, confirmed, stores, mismatches,
          unexpected>>

regVars == <<workflow_handlers, registered>>
sessVars == <<pc, reader, handler>>
kcVars == <<keychain, acquired, released>>
bookVars == <<workflows, unimports>>
cpLocals == <<req, curpin, newpin, pin1, stage>>
cpCounts == <<confirmed, stores, mismatches>>
cpVars == <<cpLocals, cpCounts>>

Init ==
    /\ workflow_handlers = [t \in {} |-> NoHandler]
    /\ registered = [mtype |-> "", entry |-> NoHandler, outcome |-> ""]
    /\ pc = "top"
    /\ reader = None
    /\ handler = NoHandler
    /\ wpc = "idle"
    /\ res = NoMsg
    /\ exc = NoExc
    /\ raisedAt = 0
    /\ keychain = "none"
    /\ acquired = 0
    /\ released = 0
    /\ written = <<>>
    /\ workflows = 0
    /\ unimports = 0
    /\ pin \in {pin_to_int(p) : p \in PinStrings}
    /\ req = NoReq
    /\ curpin = <<>>
    /\ newpin = <<>>
    /\ pin1 = <<>>
    /\ stage = ""
    /\ confirmed = 0
    /\ stores = 0
    /\ mismatches = 0
    /\ unexpected = None

(* ---------------------------- register -------------------------------- *)

\* register without the duplicate check of lines 43-44
register_Overwrite(mtype, h) ==
    /\ registered' = [mtype |-> WireType(mtype), entry |-> h, outcome |-> "ok"]
    /\ workflow_handlers' =
           [t \in DOMAIN workflow_handlers \cup {WireType(mtype)} |->
               IF t = WireType(mtype) THEN h ELSE workflow_handlers[t]]
    /\ UNCHANGED <<sessVars, wpc, res, exc, raisedAt, kcVars, written, bookVars,
                   unexpected, cpVars, pin>>

\* register(mtype, handler, *args)
register(mtype, h) ==
    /\ IF WireType(mtype) \in DOMAIN workflow_handlers
       THEN /\ registered' = [mtype |-> WireType(mtype), entry |-> h, outcome |-> "KeyError"]
            /\ UNCHANGED workflow_handlers
       ELSE /\ registered' = [mtype |-> WireType(mtype), entry |-> h, outcome |-> "ok"]
            /\ workflow_handlers' = (WireType(mtype) :> h) @@ workflow_handlers
    /\ UNCHANGED <<sessVars, wpc, res, exc, raisedAt, kcVars, written, bookVars, unexpected, cpVars, pin>>

(* ---------------------------- Context --------------------------------- *)

\* Context.write(msg): one frame on the interface
Context_write(msg) == written' = Append(written, msg)

(* ---------------------------- session_handler ------------------------- *)

\* lines 157-165: the except clause of session_handler that catches e
SessionClause(e) ==
    IF e.kind = "UnexpectedMessageError" THEN "UnexpectedMessageError"
    ELSE IF e.kind = "Error" THEN "Error"
    ELSE "Exception"

\* lines 140-142: no carried-over reader, wait for a frame header
AwaitHeader(f) ==
    /\ pc = "top"
    /\ reader = None
    /\ reader' = f
    /\ UNCHANGED <<regVars, pc, handler, wpc, res, exc, raisedAt, kcVars, written, bookVars, unexpected, cpVars, pin>>

\* the locals of a workflow coroutine that is not running
NoLocals ==
    /\ res' = NoMsg
    /\ raisedAt' = 0
    /\ keychain' = "none"
    /\ acquired' = 0
    /\ released' = 0
    /\ req' = NoReq
    /\ curpin' = <<>>
    /\ newpin' = <<>>
    /\ pin1' = <<>>
    /\ stage' = ""
    /\ confirmed' = 0
    /\ stores' = 0
    /\ mismatches' = 0

\* first position of the coroutine handler(ctx, reader, *args)
Entry(h) == IF h.handler = "unexpected_msg" THEN "um_drain" ELSE "pb_load"

\* lines 143-152: look the handler up, unimport_begin, onstart, await w
Dispatch ==
    /\ pc = "top"
    /\ reader # None
    /\ handler' = Lookup(workflow_handlers, reader.type)
    /\ unimports' = unimports + 1
    /\ workflows' = workflows + 1
    /\ pc' = "running"
    /\ wpc' = Entry(handler')
    /\ exc' = NoExc
    /\ written' = <<>>
    /\ unexpected' = None
    /\ NoLocals
    /\ UNCHANGED <<regVars, reader, pin>>

\* onclose placed after `await w` instead of in the finally block
Finally_CloseOnReturn ==
    /\ workflows' = IF exc = NoExc THEN workflows - 1 ELSE workflows
    /\ unimports' = unimports - 1

\* lines 153-155: finally: workflow.onclose(w); utils.unimport_end(m)
Finally ==
    /\ workflows' = workflows - 1
    /\ unimports' = unimports - 1

\* the carried reader is dropped: reader = None as on the other branches
ExceptUnexpectedMessageError_FreshHeader ==
    /\ pc = "running"
    /\ wpc = "end"
    /\ Finally
    /\ exc # NoExc
    /\ SessionClause(exc) = "UnexpectedMessageError"
    /\ reader' = None
    /\ exc' = NoExc
    /\ pc' = "top"
    /\ wpc' = "idle"
    /\ NoLocals
    /\ UNCHANGED <<regVars, handler, written, unexpected, pin>>

\* lines 153-160: the workflow raised UnexpectedMessageError: finally, then
\* retry with the opened reader from the exception
ExceptUnexpectedMessageError ==
    /\ pc = "running"
    /\ wpc = "end"
    /\ Finally
    /\ exc # NoExc
    /\ SessionClause(exc) = "UnexpectedMessageError"
    /\ reader' = exc.reader
    /\ exc' = NoExc
    /\ pc' = "top"
    /\ wpc' = "idle"
    /\ NoLocals
    /\ UNCHANGED <<regVars, handler, written, unexpected, pin>>


\* onclose and unimport_end after `await w` only: a wire.Error skips them
ExceptError_NoFinally ==
    /\ pc = "running"
    /\ wpc = "end"
    /\ exc # NoExc
    /\ SessionClause(exc) = "Error"
    /\ reader' = None
    /\ exc' = NoExc
    /\ pc' = "top"
    /\ wpc' = "idle"
    /\ NoLocals
    /\ UNCHANGED <<regVars, handler, written, unexpected, pin, bookVars>>

\* lines 153-155, 161-164 and 171: finally, then wire.Error is logged as a warning; reader = None
ExceptError ==
    /\ pc = "running"
    /\ wpc = "end"
    /\ Finally
    /\ exc # NoExc
    /\ SessionClause(exc) = "Error"
    /\ reader' = None
    /\ exc' = NoExc
    /\ pc' = "top"
    /\ wpc' = "idle"
    /\ NoLocals
    /\ UNCHANGED <<regVars, handler, written, unexpected, pin>>

\* no `except Exception` clause: the fault ends the session_handler task
ExceptException_Escapes ==
    /\ pc = "running"
    /\ wpc = "end"
    /\ Finally
    /\ exc # NoExc
    /\ SessionClause(exc) = "Exception"
    /\ pc' = "exited"
    /\ wpc' = "idle"
    /\ NoLocals
    /\ UNCHANGED <<regVars, reader, handler, exc, written, unexpected, pin>>

\* lines 153-155, 165-168 and 171: finally, then any other Exception is logged; reader = None
ExceptException ==
    /\ pc = "running"
    /\ wpc = "end"
    /\ Finally
    /\ exc # NoExc
    /\ SessionClause(exc) = "Exception"
    /\ reader' = None
    /\ exc' = NoExc
    /\ pc' = "top"
    /\ wpc' = "idle"
    /\ NoLocals
    /\ UNCHANGED <<regVars, handler, written, unexpected, pin>>

\* lines 153-155 and 171: the workflow returned: finally, then reader = None
Completed ==
    /\ pc = "running"
    /\ wpc = "end"
    /\ Finally
    /\ exc = NoExc
    /\ reader' = None
    /\ pc' = "top"
    /\ wpc' = "idle"
    /\ NoLocals
    /\ UNCHANGED <<regVars, handler, exc, written, unexpected, pin>>

(* ---------------------------- Context.read ---------------------------- *)


\* the payload is loaded before the type check: the reader handed to
\* UnexpectedMessageError has been read to its end
Context_read_LoadFirst(types, f) ==
    IF ~f.valid THEN Exception("handler")
    ELSE IF f.type \notin types THEN UnexpectedMessageError([f EXCEPT !.size = 0])
    ELSE NoExc

\* Context.read(types) when the next frame on the interface is f: the
\* exception it raises, NoExc when it returns the decoded message
Context_read(types, f) ==
    IF f.type \notin types
    THEN UnexpectedMessageError(f)
    ELSE IF f.valid THEN NoExc ELSE Exception("handler")

\* lines 86-87: the reader that Context.read(types) hands to
\* UnexpectedMessageError when frame f arrives, else the one already there
Rejected(types, f) == IF f.type \notin types THEN f ELSE unexpected

(* ---------------------------- protobuf_workflow ----------------------- *)

\* first position of the business handler named by import_workflow
HandlerEntry(h) == IF Business(h) = "change_pin" THEN "cp_confirm" ELSE "handler"


\* keychain_workflow without its finally block: control goes straight back
\* to protobuf_workflow
HandlerExit_SkipsFinally(h) == "pb_after"

\* where control goes when the business handler returns or raises
HandlerExit(h) == IF UsesKeychain(h) THEN "kc_finally" ELSE "pb_after"

\* the decoded requests a payload of the handler's message type may hold:
\* only change_pin reads a field of its request (msg.remove)
Requests(h) ==
    IF Business(h) = "change_pin" THEN [remove : BOOLEAN] ELSE {NoReq}
AllRequests == [remove : BOOLEAN]

\* no `except Error` clause: a domain failure is answered as a generic fault
PbClause_NoErrorClause(e) ==
    IF e.kind = "UnexpectedMessageError" THEN "UnexpectedMessageError"
    ELSE "Exception"

\* lines 182-189: the except clause of protobuf_workflow that catches e
PbClause(e) ==
    IF e.kind = "UnexpectedMessageError" THEN "UnexpectedMessageError"
    ELSE IF e.kind = "Error" THEN "Error"
    ELSE "Exception"

\* line 179: req = await protobuf.load_message(reader, ...), outside the try;
\* a payload that does not decode raises with n bytes left unread
PbLoad(n, m) ==
    /\ pc = "running"
    /\ wpc = "pb_load"
    /\ IF reader.valid
       THEN /\ n = 0
            /\ m \in Requests(handler)
            /\ req' = m
            /\ wpc' = IF UsesKeychain(handler) THEN "kc_get" ELSE HandlerEntry(handler)
            /\ UNCHANGED <<exc, raisedAt>>
       ELSE /\ n \in 0..reader.size
            /\ m = NoReq
            /\ exc' = Exception("load")
            /\ raisedAt' = Len(written)
            /\ wpc' = "end"
            /\ UNCHANGED req
    /\ reader' = [reader EXCEPT !.size = n]
    /\ UNCHANGED <<regVars, pc, handler, res, kcVars, written, bookVars, unexpected,
                   curpin, newpin, pin1, stage, confirmed, stores, mismatches, pin>>

\* lines 182-184: except UnexpectedMessageError: raise
PbExceptUnexpectedMessageError ==
    /\ pc = "running"
    /\ wpc = "pb_after"
    /\ exc # NoExc
    /\ PbClause(exc) = "UnexpectedMessageError"
    /\ wpc' = "end"
    /\ UNCHANGED <<regVars, sessVars, res, exc, raisedAt, kcVars, written, bookVars, unexpected, cpVars, pin>>

\* lines 185-188: except Error: write Failure(exc.code, exc.message); raise
PbExceptError ==
    /\ pc = "running"
    /\ wpc = "pb_after"
    /\ exc # NoExc
    /\ PbClause(exc) = "Error"
    /\ Context_write(Failure(exc.code, exc.message))
    /\ wpc' = "end"
    /\ UNCHANGED <<regVars, sessVars, res, exc, raisedAt, kcVars, bookVars, unexpected, cpVars, pin>>

\* the generic branch only re-raises, without a reply
PbExceptException_NoReply ==
    /\ pc = "running"
    /\ wpc = "pb_after"
    /\ exc # NoExc
    /\ PbClause(exc) = "Exception"
    /\ wpc' = "end"
    /\ UNCHANGED <<regVars, sessVars, res, exc, raisedAt, kcVars, written, bookVars,
                   unexpected, cpVars, pin>>

\* lines 189-194: except Exception: write Failure(FirmwareError); raise
PbExceptException ==
    /\ pc = "running"
    /\ wpc = "pb_after"
    /\ exc # NoExc
    /\ PbClause(exc) = "Exception"
    /\ Context_write(Failure("FirmwareError", "Firmware error"))
    /\ wpc' = "end"
    /\ UNCHANGED <<regVars, sessVars, res, exc, raisedAt, kcVars, bookVars, unexpected, cpVars, pin>>


\* the response of the handler is dropped
PbRespond_NoReply ==
    /\ pc = "running"
    /\ wpc = "pb_after"
    /\ exc = NoExc
    /\ wpc' = "end"
    /\ UNCHANGED <<regVars, sessVars, res, exc, raisedAt, kcVars, written, bookVars,
                   unexpected, cpVars, pin>>

\* lines 195-197: if res: await ctx.write(res)
PbRespond ==
    /\ pc = "running"
    /\ wpc = "pb_after"
    /\ exc = NoExc
    /\ IF res # NoMsg THEN Context_write(res) ELSE UNCHANGED written
    /\ wpc' = "end"
    /\ UNCHANGED <<regVars, sessVars, res, exc, raisedAt, kcVars, bookVars, unexpected, cpVars, pin>>

(* ---------------------------- keychain_workflow ----------------------- *)

\* line 207: keychain = await seed.get_keychain(ctx, namespace); it is not
\* inside the try, so a failure here leaves nothing to release
KcGet(ok) ==
    /\ pc = "running"
    /\ wpc = "kc_get"
    /\ IF ok
       THEN /\ keychain' = "held"
            /\ acquired' = acquired + 1
            /\ wpc' = HandlerEntry(handler)
            /\ UNCHANGED <<exc, raisedAt>>
       ELSE /\ exc' = Error("ProcessError", "Device is not initialized", "handler")
            /\ raisedAt' = Len(written)
            /\ wpc' = "pb_after"
            /\ UNCHANGED <<keychain, acquired>>
    /\ UNCHANGED <<regVars, sessVars, res, released, written, bookVars, unexpected, cpVars, pin>>

\* the release placed after the call instead of in the finally block
KcFinally_OnReturnOnly ==
    /\ pc = "running"
    /\ wpc = "kc_finally"
    /\ IF exc = NoExc
       THEN /\ keychain' = "released"
            /\ released' = released + 1
       ELSE UNCHANGED <<keychain, released>>
    /\ wpc' = "pb_after"
    /\ UNCHANGED <<regVars, sessVars, res, exc, raisedAt, acquired, written, bookVars,
                   unexpected, cpVars, pin>>

\* lines 211-212: finally: keychain.__del__()
KcFinally ==
    /\ pc = "running"
    /\ wpc = "kc_finally"
    /\ keychain' = "released"
    /\ released' = released + 1
    /\ wpc' = "pb_after"
    /\ UNCHANGED <<regVars, sessVars, res, exc, raisedAt, acquired, written, bookVars, unexpected, cpVars, pin>>

(* ---------------------------- external business handler --------------- *)

\* the handler writes an intermediate message with ctx.write
HandlerWrite ==
    /\ pc = "running"
    /\ wpc = "handler"
    /\ Len(written) < MaxWrites
    /\ Context_write(ButtonRequest)
    /\ UNCHANGED <<regVars, sessVars, wpc, res, exc, raisedAt, kcVars, bookVars, unexpected, cpVars, pin>>

\* the handler waits in ctx.read(types) (or ctx.wait, types = ()) and frame
\* f arrives
HandlerRead(types, f) ==
    /\ pc = "running"
    /\ wpc = "handler"
    /\ exc' = Context_read(types, f)
    /\ IF exc' = NoExc
       THEN UNCHANGED <<wpc, raisedAt>>
       ELSE /\ wpc' = HandlerExit(handler)
            /\ raisedAt' = Len(written)
    /\ unexpected' = Rejected(types, f)
    /\ UNCHANGED <<regVars, sessVars, res, kcVars, written, bookVars, cpVars, pin>>

\* the handler returns None or a response message
HandlerReturn(r) ==
    /\ pc = "running"
    /\ wpc = "handler"
    /\ res' = r
    /\ wpc' = HandlerExit(handler)
    /\ UNCHANGED <<regVars, sessVars, exc, raisedAt, kcVars, written, bookVars, unexpected, cpVars, pin>>

\* the handler raises a domain failure or some other fault
HandlerRaise(e) ==
    /\ pc = "running"
    /\ wpc = "handler"
    /\ exc' = e
    /\ raisedAt' = Len(written)
    /\ wpc' = HandlerExit(handler)
    /\ UNCHANGED <<regVars, sessVars, res, kcVars, written, bookVars, unexpected, cpVars, pin>>

HandlerFaults ==
    {Error(e[1], e[2], "handler") : e \in HandlerErrors} \cup {Exception("handler")}

(* ---------------------------- trezor.config --------------------------- *)

\* config.has_pin()
has_pin == pin # pin_to_int(<<>>)
\* config.check_pin(p)
check_pin(p) == p = pin

(* ---------------------------- change_pin ------------------------------ *)

\* an exception e leaves the change_pin coroutine
CpRaise(e, at) ==
    /\ exc' = e
    /\ raisedAt' = at
    /\ wpc' = HandlerExit(handler)
    /\ req' = NoReq
    /\ curpin' = <<>>
    /\ newpin' = <<>>
    /\ pin1' = <<>>
    /\ stage' = ""

\* lines 48-60: the three branches of require_confirm_change_pin that ask
NeedsConfirm(remove, has) ==
    \/ remove /\ has
    \/ ~remove /\ has
    \/ ~remove /\ ~has

\* lines 45-64 when no branch matches: nothing is asked
CpNoConfirm ==
    /\ pc = "running"
    /\ wpc = "cp_confirm"
    /\ ~NeedsConfirm(req.remove, has_pin)
    /\ wpc' = "cp_curpin"
    /\ UNCHANGED <<regVars, sessVars, res, exc, raisedAt, kcVars, written, bookVars, unexpected,
                   cpVars, pin>>

\* require_confirm(ctx, text), first half: ctx.call(ButtonRequest, ButtonAck)
CpConfirmCall(f) ==
    /\ pc = "running"
    /\ wpc = "cp_confirm"
    /\ NeedsConfirm(req.remove, has_pin)
    /\ Context_write(ButtonRequest)
    /\ IF Context_read({"ButtonAck"}, f) = NoExc
       THEN /\ wpc' = "cp_confirm_wait"
            /\ UNCHANGED <<exc, raisedAt, cpLocals>>
       ELSE CpRaise(Context_read({"ButtonAck"}, f), Len(written) + 1)
    /\ unexpected' = Rejected({"ButtonAck"}, f)
    /\ UNCHANGED <<regVars, sessVars, res, kcVars, bookVars, cpCounts, pin>>

\* require_confirm, second half: ctx.wait(dialog) ends with the user's answer
CpConfirmWait(answer) ==
    /\ pc = "running"
    /\ wpc = "cp_confirm_wait"
    /\ IF answer
       THEN /\ confirmed' = confirmed + 1
            /\ wpc' = "cp_curpin"
            /\ UNCHANGED <<exc, raisedAt, cpLocals>>
       ELSE /\ CpRaise(Error("ActionCancelled", "Cancelled", "handler"), Len(written))
            /\ UNCHANGED confirmed
    /\ UNCHANGED <<regVars, sessVars, res, kcVars, written, bookVars, unexpected,
                   stores, mismatches, pin>>

\* require_confirm, second half: a frame arrives during ctx.wait(dialog)
CpConfirmInterrupted(f) ==
    /\ pc = "running"
    /\ wpc = "cp_confirm_wait"
    /\ CpRaise(Context_read({}, f), Len(written))
    /\ unexpected' = Rejected({}, f)
    /\ UNCHANGED <<regVars, sessVars, res, kcVars, written, bookVars, cpCounts, pin>>


\* the current PIN is never asked for
CpCurPin_NeverAsks ==
    /\ pc = "running"
    /\ wpc = "cp_curpin"
    /\ curpin' = <<>>
    /\ wpc' = "cp_newpin"
    /\ UNCHANGED <<regVars, sessVars, res, exc, raisedAt, kcVars, written, bookVars, unexpected,
                   req, newpin, pin1, stage, confirmed, stores, mismatches, pin>>

\* lines 22-27: the current PIN is asked for only if one is set
CpCurPin ==
    /\ pc = "running"
    /\ wpc = "cp_curpin"
    /\ IF has_pin
       THEN /\ stage' = "cur"
            /\ wpc' = "rpa_call"
            /\ UNCHANGED curpin
       ELSE /\ curpin' = <<>>
            /\ wpc' = "cp_newpin"
            /\ UNCHANGED stage
    /\ UNCHANGED <<regVars, sessVars, res, exc, raisedAt, kcVars, written, bookVars, unexpected,
                   req, newpin, pin1, confirmed, stores, mismatches, pin>>

\* lines 30-33: the new PIN is asked for unless the request removes the PIN
CpNewPin ==
    /\ pc = "running"
    /\ wpc = "cp_newpin"
    /\ IF ~req.remove
       THEN /\ stage' = "new1"
            /\ wpc' = "rpa_call"
            /\ UNCHANGED newpin
       ELSE /\ newpin' = <<>>
            /\ wpc' = "cp_store"
            /\ UNCHANGED stage
    /\ UNCHANGED <<regVars, sessVars, res, exc, raisedAt, kcVars, written, bookVars, unexpected,
                   req, curpin, pin1, confirmed, stores, mismatches, pin>>

\* a bare `except:` in request_pin_ack
RequestPinAckExcept_CatchAll(e) ==
    Error("ActionCancelled", "Cancelled", "handler")

\* lines 82-83: request_pin_ack's except clause: only PinCancelled is caught
\* and turned into wire.ActionCancelled
RequestPinAckExcept(e) ==
    IF e.kind = "PinCancelled"
    THEN Error("ActionCancelled", "Cancelled", "handler")
    ELSE e


\* request_pin_ack swallows the UnexpectedMessageError of ctx.call and goes
\* on to the PIN entry
RpaCall_SwallowsUnexpected(f) ==
    /\ pc = "running"
    /\ wpc = "rpa_call"
    /\ Context_write(ButtonRequest)
    /\ IF Context_read({"ButtonAck"}, f).kind \in {"none", "UnexpectedMessageError"}
       THEN /\ wpc' = "rpa_wait"
            /\ UNCHANGED <<exc, raisedAt, cpLocals>>
       ELSE CpRaise(RequestPinAckExcept(Context_read({"ButtonAck"}, f)), Len(written) + 1)
    /\ unexpected' = Rejected({"ButtonAck"}, f)
    /\ UNCHANGED <<regVars, sessVars, res, kcVars, bookVars, cpCounts, pin>>

\* lines 78-80: ctx.call(ButtonRequest(code=Other), ButtonAck)
RpaCall(f) ==
    /\ pc = "running"
    /\ wpc = "rpa_call"
    /\ Context_write(ButtonRequest)
    /\ IF Context_read({"ButtonAck"}, f) = NoExc
       THEN /\ wpc' = "rpa_wait"
            /\ UNCHANGED <<exc, raisedAt, cpLocals>>
       ELSE CpRaise(RequestPinAckExcept(Context_read({"ButtonAck"}, f)), Len(written) + 1)
    /\ unexpected' = Rejected({"ButtonAck"}, f)
    /\ UNCHANGED <<regVars, sessVars, res, kcVars, bookVars, cpCounts, pin>>


\* the read raced by wait expects ButtonAck instead of nothing
RpaInterrupted_AcceptsAck(f) ==
    /\ pc = "running"
    /\ wpc = "rpa_wait"
    /\ CpRaise(RequestPinAckExcept(Context_read({"ButtonAck"}, f)), Len(written))
    /\ unexpected' = Rejected({"ButtonAck"}, f)
    /\ UNCHANGED <<regVars, sessVars, res, kcVars, written, bookVars, cpCounts, pin>>

\* line 81: a frame arrives during ctx.wait(request_pin(...))
RpaInterrupted(f) ==
    /\ pc = "running"
    /\ wpc = "rpa_wait"
    /\ CpRaise(RequestPinAckExcept(Context_read({}, f)), Len(written))
    /\ unexpected' = Rejected({}, f)
    /\ UNCHANGED <<regVars, sessVars, res, kcVars, written, bookVars, cpCounts, pin>>

\* line 81: the user cancels the PIN entry, request_pin raises PinCancelled
RpaCancelled ==
    /\ pc = "running"
    /\ wpc = "rpa_wait"
    /\ CpRaise(RequestPinAckExcept(PinCancelled), Len(written))
    /\ UNCHANGED <<regVars, sessVars, res, kcVars, written, bookVars, unexpected, cpCounts, pin>>


\* request_pin_confirm takes the second entry without comparing it to pin1
RpaEntered_NoCompare(p) ==
    /\ pc = "running"
    /\ wpc = "rpa_wait"
    /\ \/ /\ stage = "cur"
          /\ IF check_pin(pin_to_int(p))
             THEN /\ curpin' = p
                  /\ wpc' = "cp_newpin"
                  /\ UNCHANGED <<exc, raisedAt, req, pin1, newpin, stage>>
             ELSE CpRaise(Error("PinInvalid", "PIN invalid", "handler"), Len(written))
       \/ /\ stage = "new1"
          /\ pin1' = p
          /\ stage' = "new2"
          /\ wpc' = "rpa_call"
          /\ UNCHANGED <<req, curpin, newpin, exc, raisedAt>>
       \/ /\ stage = "new2"
          /\ newpin' = p
          /\ wpc' = "cp_store"
          /\ UNCHANGED <<req, curpin, pin1, stage, exc, raisedAt>>
    /\ UNCHANGED <<regVars, sessVars, res, kcVars, written, bookVars, unexpected,
                   cpCounts, pin>>

\* line 81: the user enters p; request_pin_ack returns it to its caller:
\* line 23-25 (current PIN), line 69 (pin1) or lines 70-73 (pin2)
RpaEntered(p) ==
    /\ pc = "running"
    /\ wpc = "rpa_wait"
    /\ \/ /\ stage = "cur"
          /\ IF check_pin(pin_to_int(p))
             THEN /\ curpin' = p
                  /\ wpc' = "cp_newpin"
                  /\ UNCHANGED <<exc, raisedAt, req, pin1, newpin, stage>>
             ELSE CpRaise(Error("PinInvalid", "PIN invalid", "handler"), Len(written))
       \/ /\ stage = "new1"
          /\ pin1' = p
          /\ stage' = "new2"
          /\ wpc' = "rpa_call"
          /\ UNCHANGED <<req, curpin, newpin, exc, raisedAt>>
       \/ /\ stage = "new2"
          /\ IF pin1 = p
             THEN /\ newpin' = pin1
                  /\ wpc' = "cp_store"
             ELSE /\ mismatches < MaxRounds
                  /\ wpc' = "cp_mismatch"
                  /\ UNCHANGED newpin
          /\ UNCHANGED <<req, curpin, pin1, stage, exc, raisedAt>>
    /\ UNCHANGED <<regVars, sessVars, res, kcVars, written, bookVars, unexpected,
                   cpCounts, pin>>

\* lines 73 and 86-93: the mismatch screen, then the loop asks again
PinMismatch ==
    /\ pc = "running"
    /\ wpc = "cp_mismatch"
    /\ mismatches' = mismatches + 1
    /\ stage' = "new1"
    /\ wpc' = "rpa_call"
    /\ UNCHANGED <<regVars, sessVars, res, exc, raisedAt, kcVars, written, bookVars, unexpected,
                   req, curpin, newpin, pin1, confirmed, stores, pin>>

\* lines 36-42: config.change_pin(old, new) stores new if old is the stored
\* PIN and the storage accepts the write (ok)
CpStore(ok) ==
    /\ pc = "running"
    /\ wpc = "cp_store"
    /\ stores' = stores + 1
    /\ IF ok /\ check_pin(pin_to_int(curpin))
       THEN /\ pin' = pin_to_int(newpin)
            /\ res' = IF newpin # <<>> THEN Success("PIN changed")
                                       ELSE Success("PIN removed")
            /\ wpc' = HandlerExit(handler)
            /\ req' = NoReq
            /\ curpin' = <<>>
            /\ newpin' = <<>>
            /\ pin1' = <<>>
            /\ stage' = ""
            /\ UNCHANGED <<exc, raisedAt>>
       ELSE /\ CpRaise(Error("PinInvalid", "PIN invalid", "handler"), Len(written))
            /\ UNCHANGED <<pin, res>>
    /\ UNCHANGED <<regVars, sessVars, kcVars, written, bookVars, unexpected,
                   confirmed, mismatches>>

(* ---------------------------- unexpected_msg -------------------------- *)

\* lines 228-230: while reader.size > 0: areadinto(bytearray(reader.size));
\* one call takes n of the remaining bytes
UmDrain(n) ==
    /\ pc = "running"
    /\ wpc = "um_drain"
    /\ reader.size > 0
    /\ n \in 1..reader.size
    /\ reader' = [reader EXCEPT !.size = reader.size - n]
    /\ UNCHANGED <<regVars, pc, handler, wpc, res, exc, raisedAt, kcVars, written, bookVars, unexpected, cpVars, pin>>

\* the reply written without draining the payload first
UmWrite_Early ==
    /\ pc = "running"
    /\ wpc = "um_drain"
    /\ Context_write(Failure("UnexpectedMessage", "Unexpected message"))
    /\ wpc' = "end"
    /\ UNCHANGED <<regVars, sessVars, res, exc, raisedAt, kcVars, bookVars,
                   unexpected, cpVars, pin>>

\* lines 233-235: write Failure(UnexpectedMessage, "Unexpected message")
UmWrite ==
    /\ pc = "running"
    /\ wpc = "um_drain"
    /\ ~(reader.size > 0)
    /\ Context_write(Failure("UnexpectedMessage", "Unexpected message"))
    /\ wpc' = "end"
    /\ UNCHANGED <<regVars, sessVars, res, exc, raisedAt, kcVars, bookVars, unexpected, cpVars, pin>>

(* ---------------------------- specification --------------------------- *)

\* the steps of session_handler and of the workflow it runs
SessionNext ==
    \/ \E f \in OpenedReaders : AwaitHeader(f)
    \/ Dispatch
    \/ ExceptUnexpectedMessageError
    \/ ExceptError
    \/ ExceptException
    \/ Completed
    \/ \E n \in 0..MaxSize, m \in AllRequests : PbLoad(n, m)
    \/ PbExceptUnexpectedMessageError
    \/ PbExceptError
    \/ PbExceptException
    \/ PbRespond
    \/ \E ok \in BOOLEAN : KcGet(ok)
    \/ KcFinally
    \/ HandlerWrite
    \/ \E types \in HandlerReadTypes, f \in OpenedReaders : HandlerRead(types, f)
    \/ \E r \in HandlerResults : HandlerReturn(r)
    \/ \E e \in HandlerFaults : HandlerRaise(e)
    \/ CpNoConfirm
    \/ \E f \in OpenedReaders : CpConfirmCall(f)
    \/ \E answer \in BOOLEAN : CpConfirmWait(answer)
    \/ \E f \in OpenedReaders : CpConfirmInterrupted(f)
    \/ CpCurPin
    \/ CpNewPin
    \/ \E f \in OpenedReaders : RpaCall(f)
    \/ \E f \in OpenedReaders : RpaInterrupted(f)
    \/ RpaCancelled
    \/ \E p \in EnteredPins : RpaEntered(p)
    \/ PinMismatch
    \/ \E ok \in BOOLEAN : CpStore(ok)
    \/ \E n \in 1..MaxSize : UmDrain(n)
    \/ UmWrite

Next ==
    \/ \E m \in MTypes, h \in Registrations : register(m, h)
    \/ SessionNext

Spec == Init /\ [][Next]_vars

(* ---------------------------- properties ------------------------------ *)

\* a workflow fault (wire.Error or any other Exception) is in flight
Faulted == exc # NoExc /\ exc.kind # "UnexpectedMessageError"

IsFailureReply(m) == m.type = "Failure"

\* C1: session_handler never leaves its loop because of a workflow fault:
\* when a workflow ends with wire.Error or any other Exception the handler
\* sets reader to None and goes back to the top of the loop, where its next
\* step is to read a fresh header; the handler is always inside the loop.
C1_NeverLeavesLoop ==
    /\ [](pc \in {"top", "running"} /\ ENABLED SessionNext)
    /\ [][(pc = "running" /\ Faulted /\ pc' # pc)
            => (pc' = "top" /\ reader' = None)]_vars
    /\ [][(pc = "top" /\ reader = None /\ <<pc, reader>>' # <<pc, reader>>)
            => (pc' = "top" /\ reader' \in OpenedReaders)]_vars

\* the handler is back at the top of the loop, without a reader, after a
\* workflow that ended in a generic fault
C1_Witness ==
    /\ pc = "top"
    /\ reader = None
    /\ handler.handler = "protobuf_workflow"
    /\ written # <<>>
    /\ written[Len(written)] = Failure("FirmwareError", "Firmware error")

\* C2: a frame of a type that Context.read does not wait for makes the read
\* raise UnexpectedMessageError carrying that frame's reader, the workflow
\* ends, and session_handler's next dispatch looks up exactly that reader in
\* workflow_handlers, without an aopen of a fresh reader in between.
C2_Redispatch ==
    /\ [][(unexpected' # unexpected /\ unexpected' # None)
            => /\ unexpected' \in OpenedReaders
               /\ exc' = UnexpectedMessageError(unexpected')
               /\ wpc' \in {"kc_finally", "pb_after"}
               /\ (wpc \in {"cp_confirm", "rpa_call"} => unexpected'.type # "ButtonAck")]_vars
    /\ [][(pc = "running" /\ exc.kind = "UnexpectedMessageError" /\ pc' # pc)
            => (pc' = "top" /\ reader' = exc.reader /\ reader' = unexpected)]_vars
    /\ [][(pc = "top" /\ reader # None /\ <<pc, reader>>' # <<pc, reader>>)
            => /\ pc' = "running"
               /\ reader' = reader
               /\ handler' = Lookup(workflow_handlers, reader.type)]_vars

\* change_pin was interrupted and the handler holds the carried reader of a
\* registered type at the top of the loop
C2_Witness ==
    /\ pc = "top"
    /\ unexpected # None
    /\ reader = unexpected
    /\ Business(handler) = "change_pin"
    /\ reader.type \in DOMAIN workflow_handlers

\* C3: when the business handler raises wire.Error with code C and message
\* M, the next frame written, before the exception reaches session_handler,
\* is Failure(C, M), and the same exception is re-raised to session_handler.
C3_DomainFailureReply ==
    /\ [](pc = "running" /\ wpc = "end" /\ exc.kind = "Error"
            => /\ Len(written) = raisedAt + 1
               /\ written[Len(written)] = Failure(exc.code, exc.message))
    /\ [][(pc = "running" /\ exc.kind = "Error" /\ pc' = "running") => exc' = exc]_vars

\* a handler wrote a frame, raised DataError, and the adapter has answered
C3_Witness ==
    /\ pc = "running"
    /\ wpc = "end"
    /\ exc = Error("DataError", "Invalid data", "handler")
    /\ raisedAt = 1

\* C4: when the business handler raises a fault that is neither
\* UnexpectedMessageError nor wire.Error, protobuf_workflow writes exactly one
\* Failure frame, Failure(FirmwareError, "Firmware error"), and re-raises; no
\* normal response is written for the request.
C4_FirmwareErrorReply ==
    (pc = "running" /\ wpc = "end" /\ Faulted /\ exc.kind # "Error" /\ exc.origin = "handler")
        => /\ Len(written) = raisedAt + 1
           /\ written[Len(written)] = Failure("FirmwareError", "Firmware error")
           /\ Cardinality({i \in 1..Len(written) : IsFailureReply(written[i])}) = 1
           /\ \A i \in 1..Len(written) : written[i].type # "Success"

\* a handler wrote a frame, raised a generic fault, and the adapter answered
C4_Witness ==
    /\ pc = "running"
    /\ wpc = "end"
    /\ exc = Exception("handler")
    /\ raisedAt = 1

\* C5: whenever a dispatched workflow ends in error (wire.Error or generic
\* Exception reaches session_handler), a Failure frame for that request has
\* been written, also when the error was raised while decoding the request.
C5_FailureAlwaysWritten ==
    (pc = "running" /\ wpc = "end" /\ Faulted)
        => \E i \in 1..Len(written) : IsFailureReply(written[i])

\* C6: an UnexpectedMessageError raised by Context.read inside a workflow
\* reaches session_handler unchanged, carrying the rejected reader: no layer
\* drops or converts it, and no frame is written on account of it.
C6_UnexpectedPropagates ==
    /\ [](unexpected # None
            => \/ /\ pc = "running"
                  /\ wpc \in {"kc_finally", "pb_after", "end"}
                  /\ exc = UnexpectedMessageError(unexpected)
                  /\ Len(written) = raisedAt
               \/ /\ pc = "top"
                  /\ reader = unexpected)
    /\ [][exc.kind = "UnexpectedMessageError" => written' = written]_vars

\* change_pin was interrupted inside request_pin_ack (the ButtonRequest of
\* the confirmation and the one of the PIN prompt are out) and the exception
\* is at session_handler
C6_Witness ==
    /\ pc = "running"
    /\ wpc = "end"
    /\ unexpected # None
    /\ exc = UnexpectedMessageError(unexpected)
    /\ Business(handler) = "change_pin"
    /\ Len(written) >= 2

\* C7: registering a tag that is already registered raises KeyError and
\* leaves the registry unchanged, registering a new tag succeeds, and every
\* registered tag keeps the (handler, args) pair of its first registration.
C7_RegisterOnce ==
    /\ [][\A t \in DOMAIN workflow_handlers :
            /\ t \in DOMAIN workflow_handlers'
            /\ workflow_handlers'[t] = workflow_handlers[t]]_vars
    /\ [][registered' # registered
            => IF registered'.mtype \in DOMAIN workflow_handlers
               THEN /\ registered'.outcome = "KeyError"
                    /\ workflow_handlers' = workflow_handlers
               ELSE /\ registered'.outcome = "ok"
                    /\ DOMAIN workflow_handlers' =
                           DOMAIN workflow_handlers \cup {registered'.mtype}
                    /\ workflow_handlers'[registered'.mtype] = registered'.entry]_vars

\* a second registration of a tag, with another handler, was refused
C7_Witness ==
    /\ registered.outcome = "KeyError"
    /\ registered.mtype \in DOMAIN workflow_handlers
    /\ workflow_handlers[registered.mtype] # registered.entry

\* C8: a frame whose type has no entry in workflow_handlers is handled by
\* unexpected_msg, which consumes the payload until reader.size is 0 and only
\* then writes one Failure(UnexpectedMessage); afterwards the handler waits
\* for a fresh header.
C8_UnexpectedMsgDrains ==
    /\ [][(pc = "top" /\ pc' = "running" /\ reader.type \notin DOMAIN workflow_handlers)
            => (handler'.handler = "unexpected_msg" /\ wpc' = "um_drain")]_vars
    /\ [](pc = "running" /\ handler.handler = "unexpected_msg"
            => /\ exc = NoExc
               /\ IF written = <<>>
                  THEN wpc = "um_drain"
                  ELSE /\ wpc = "end"
                       /\ reader.size = 0
                       /\ written = <<Failure("UnexpectedMessage", "Unexpected message")>>)
    /\ [][(pc = "running" /\ handler.handler = "unexpected_msg" /\ pc' # pc)
            => (pc' = "top" /\ reader' = None)]_vars

\* an unregistered frame with a payload was drained and answered
C8_Witness ==
    /\ pc = "running"
    /\ wpc = "end"
    /\ handler.handler = "unexpected_msg"
    /\ reader.len > 0
    /\ reader.size = 0
    /\ written = <<Failure("UnexpectedMessage", "Unexpected message")>>

\* C9: every keychain acquired by keychain_workflow is released exactly once
\* before keychain_workflow returns or propagates, on every exit path.
C9_KeychainReleased ==
    /\ released <= acquired
    /\ acquired <= 1
    /\ (keychain = "held") = (acquired = 1 /\ released = 0)
    /\ (pc = "running" /\ wpc \in {"pb_after", "end"})
          => (released = acquired /\ keychain # "held")
    /\ (pc = "running" /\ wpc \in {"handler", "kc_finally"} /\ UsesKeychain(handler))
          => acquired = 1

\* keychain_workflow was left by an UnexpectedMessageError and its keychain
\* has been released
C9_Witness ==
    /\ pc = "running"
    /\ wpc = "end"
    /\ exc.kind = "UnexpectedMessageError"
    /\ UsesKeychain(handler)
    /\ acquired = 1
    /\ released = 1

\* C10: at most one workflow is active on the interface: every workflow
\* started with onstart is closed with onclose before session_handler is
\* back at the top of its loop, where the next one is started, also after an
\* interruption by UnexpectedMessageError.
C10_OneWorkflow ==
    /\ workflows <= 1
    /\ pc = "top" => workflows = 0
    /\ pc = "running" => workflows = 1

\* the interrupted workflow is closed and the interrupting frame, of an
\* unregistered type, is about to be dispatched
C10_Witness ==
    /\ pc = "top"
    /\ unexpected # None
    /\ reader = unexpected
    /\ reader.type \notin DOMAIN workflow_handlers
    /\ workflows = 0

\* C11: no half-read frame is dropped: whenever session_handler discards its
\* current reader to wait for a fresh header (reader = None at line 171, or
\* the reader replaced at line 159), the whole declared payload of the
\* discarded frame has been consumed.
C11_NoHalfReadFrame ==
    [][(pc = "running" /\ pc' = "top" /\ reader' # reader)
            => reader.size = 0]_vars

\* the workflow that session_handler is running is change_pin
RunsChangePin ==
    /\ pc = "running"
    /\ handler.handler = "protobuf_workflow"
    /\ Business(handler) = "change_pin"

\* change_pin is running for a request that sets a PIN on a device without one
PinSetup ==
    /\ RunsChangePin
    /\ wpc \in {"cp_newpin", "rpa_call", "rpa_wait", "cp_mismatch", "cp_store"}
    /\ ~req.remove
    /\ ~has_pin

C13_HandshakeBeforePin ==
    /\ [](pc = "running" /\ wpc = "rpa_wait"
            => /\ written # <<>>
               /\ written[Len(written)] = ButtonRequest
               /\ exc = NoExc
               /\ unexpected = None)
    /\ [][(wpc' = "rpa_wait" /\ wpc # "rpa_wait")
            => /\ wpc = "rpa_call"
               /\ written' = Append(written, ButtonRequest)
               /\ unexpected' = None]_vars
    /\ [][(wpc = "rpa_call" /\ unexpected' # None)
            => /\ unexpected'.type # "ButtonAck"
               /\ written' = Append(written, ButtonRequest)
               /\ exc' = UnexpectedMessageError(unexpected')
               /\ wpc' = HandlerExit(handler)]_vars
    /\ [][(RunsChangePin /\ exc.kind = "UnexpectedMessageError")
            => /\ wpc' \in {"pb_after", "end", "idle"}
               /\ pc' = "running" => exc' = exc]_vars

\* the second PIN entry of a round is about to start, after its handshake
C13_Witness ==
    /\ RunsChangePin
    /\ wpc = "rpa_wait"
    /\ stage = "new2"
    /\ written[Len(written)] = ButtonRequest
    /\ Len(written) >= 3

\* C14: the housekeeping of an invocation is bracketed on every exit path:
\* dispatching performs one unimport_begin and one onstart, and the step
\* that takes session_handler back to the top of its loop, whatever the
\* outcome of the workflow, performs the one matching unimport_end and
\* onclose, so none is open at the next dispatch or header wait.
C14_HousekeepingBracketed ==
    /\ [](/\ pc = "top" => (unimports = 0 /\ workflows = 0)
          /\ pc = "running" => (unimports = 1 /\ workflows = 1))
    /\ [][(pc = "top" /\ pc' = "running")
            => (unimports' = unimports + 1 /\ workflows' = workflows + 1)]_vars
    /\ [][(pc = "running" /\ pc' = "top")
            => /\ wpc = "end"
               /\ unimports' = unimports - 1
               /\ workflows' = workflows - 1]_vars
    /\ [][(pc' = pc) => (unimports' = unimports /\ workflows' = workflows)]_vars

\* session_handler is back at the header wait after a workflow that raised
\* a domain failure; its housekeeping is closed
C14_Witness ==
    /\ pc = "top"
    /\ reader = None
    /\ written # <<>>
    /\ IsFailureReply(written[Len(written)])
    /\ written[Len(written)].code # "FirmwareError"
    /\ unimports = 0
    /\ workflows = 0

\* the workflow that session_handler is running went through protobuf_workflow
RunsProtobuf == pc = "running" /\ handler.handler = "protobuf_workflow"

\* the reply frames (a response or a Failure) written for the request; what
\* a handler writes before it ends are ButtonRequest frames
FinalReplies ==
    Cardinality({i \in 1..Len(written) : written[i].type \in {"Failure", "Success"}})

\* C15: every workflow dispatched through protobuf_workflow that ends
\* without UnexpectedMessageError has written exactly one final reply frame:
\* the handler's response if it returned, a Failure frame if it raised.
C15_OneFinalReply ==
    (RunsProtobuf /\ wpc = "end" /\ exc.kind # "UnexpectedMessageError")
        => /\ FinalReplies = 1
           /\ exc = NoExc => written[Len(written)] = res
           /\ exc # NoExc => IsFailureReply(written[Len(written)])

\* C15, amended: such a workflow has written exactly one final reply frame
\* when its handler returned a response message (that message) or raised
\* (a Failure frame), and no reply frame when the handler returned None or
\* when the request payload failed to decode before the handler was invoked.
C15_OneFinalReplyIfAny ==
    (RunsProtobuf /\ wpc = "end" /\ exc.kind # "UnexpectedMessageError")
        => IF (exc = NoExc /\ res = NoMsg) \/ (exc # NoExc /\ exc.origin = "load")
           THEN FinalReplies = 0
           ELSE /\ FinalReplies = 1
                /\ exc = NoExc => written[Len(written)] = res
                /\ exc # NoExc => IsFailureReply(written[Len(written)])

\* a handler wrote a ButtonRequest, returned a response, and the response is
\* the one reply frame
C15_Witness ==
    /\ RunsProtobuf
    /\ wpc = "end"
    /\ exc = NoExc
    /\ res = Success("done")
    /\ written = <<ButtonRequest, Success("done")>>

\* C16: the reader carried by an UnexpectedMessageError of Context.read has
\* had only its header read: its remaining size is the declared payload
\* length, it is the reader opened for the interrupting frame, and the
\* handler that session_handler dispatches next receives it unchanged.
C16_CarriedReaderUnread ==
    /\ [](exc.kind = "UnexpectedMessageError"
            => /\ exc.reader = unexpected
               /\ exc.reader.size = exc.reader.len)
    /\ [](pc = "top" /\ reader # None => reader.size = reader.len)
    /\ [][(pc = "top" /\ reader # None /\ pc' = "running")
            => /\ reader' = reader
               /\ wpc' = Entry(handler')]_vars

\* a frame with a payload has interrupted a workflow and is about to be
\* dispatched with its whole payload unread
C16_Witness ==
    /\ pc = "top"
    /\ unexpected # None
    /\ reader = unexpected
    /\ reader.len > 0
    /\ reader.size = reader.len

\* the positions of change_pin inside ctx.wait(...)
WaitPositions == {"cp_confirm_wait", "rpa_wait"}

\* C17: during Context.wait a frame that arrives before the task finishes,
\* whatever its type, ends the wait with UnexpectedMessageError carrying the
\* reader of that frame; the workflow leaves a wait towards its caller only
\* with an exception, never with a decoded message; and when the task
\* finishes first the wait ends with the task's result or the task's own
\* failure, with no reader opened.
C17_WaitRace ==
    /\ [][(pc = "running" /\ wpc \in WaitPositions /\ unexpected' # unexpected)
            => /\ exc' = UnexpectedMessageError(unexpected')
               /\ wpc' = HandlerExit(handler)
               /\ written' = written]_vars
    /\ [][(pc = "running" /\ wpc \in WaitPositions /\ wpc' = HandlerExit(handler))
            => exc' # NoExc]_vars
    /\ [][(pc = "running" /\ wpc \in WaitPositions /\ wpc' # wpc /\ unexpected' = unexpected)
            => /\ reader' = reader
               /\ exc' = NoExc \/ exc'.kind = "Error"]_vars

\* a ButtonAck frame, which ctx.call would have accepted, has ended a wait
\* of change_pin with UnexpectedMessageError
C17_Witness ==
    /\ RunsChangePin
    /\ wpc = "end"
    /\ exc.kind = "UnexpectedMessageError"
    /\ exc.reader.type = "ButtonAck"
    /\ exc.reader = unexpected

\* C18: a workflow registered with a namespace releases its keychain before
\* its final reply is written: in the step that writes the response or the
\* Failure frame the keychain acquired for the request is no longer held.
C18_ReleasedBeforeReply ==
    [][(/\ RunsProtobuf
        /\ UsesKeychain(handler)
        /\ Len(written') = Len(written) + 1
        /\ written'[Len(written')].type \in {"Failure", "Success"})
            => /\ wpc = "pb_after"
               /\ keychain # "held"
               /\ released = acquired]_vars

\* a handler that held a keychain returned a response; the keychain was
\* released and the response is written
C18_Witness ==
    /\ RunsProtobuf
    /\ UsesKeychain(handler)
    /\ wpc = "end"
    /\ exc = NoExc
    /\ acquired = 1
    /\ keychain = "released"
    /\ res # NoMsg
    /\ written # <<>>
    /\ written[Len(written)] = res

\* C19: change_pin does not write to storage on an aborted run:
\* config.change_pin is reached only with no exception raised, no frame
\* rejected and the entered current PIN verified by config.check_pin; a run
\* that raises before that point (failed check, cancelled entry,
\* UnexpectedMessageError) never calls it and leaves the stored PIN as it
\* was; and it is called at most once per invocation.
C19_NoStoreOnAbort ==
    /\ [](stores <= 1)
    /\ [](pc = "running" /\ wpc = "cp_store"
            => /\ exc = NoExc
               /\ unexpected = None
               /\ stores = 0
               /\ check_pin(pin_to_int(curpin)))
    /\ [][stores' > stores
            => /\ wpc = "cp_store"
               /\ exc = NoExc
               /\ stores' = stores + 1]_vars
    /\ [][(RunsChangePin /\ exc = NoExc /\ exc' # NoExc /\ wpc # "cp_store")
            => (stores' = 0 /\ pin' = pin)]_vars
    /\ [][(RunsChangePin /\ exc # NoExc)
            => /\ pin' = pin
               /\ pc' = "running" => (stores' = stores /\ exc' = exc)]_vars
    /\ [][pin' # pin => stores' = stores + 1]_vars

\* the entered current PIN was wrong: the run ended with PinInvalid and
\* config.change_pin was not called
C19_Witness ==
    /\ RunsChangePin
    /\ wpc = "end"
    /\ exc = Error("PinInvalid", "PIN invalid", "handler")
    /\ stores = 0
    /\ written[Len(written)] = Failure("PinInvalid", "PIN invalid")

\* C20: change_pin has the user confirm before it touches storage: for
\* every combination of msg.remove and config.has_pin(), a require_confirm
\* has completed successfully in the invocation before config.change_pin is
\* called.
C20_ConfirmedBeforeStore ==
    [][(RunsChangePin /\ stores' > stores) => confirmed >= 1]_vars

=============================================================================
